---- MODULE Spec2Model ----
(***************************************************************************)
(* Model of OrderCreateStudentUsecase.run                                  *)
(* (src/order-create-student.usecase.ts): concurrent invocations that lock *)
(* an Order, validate it, save a Student and append its id to the Order.   *)
(* One action per await point of run(); the synchronous code that follows  *)
(* an await is part of the action of that await.                           *)
(***************************************************************************)
EXTENDS Integers, Sequences, FiniteSets, TLC

\* ------------------------------------------------------------------ bounds
NumProcs == 2          \* concurrent callers of run()
MaxCalls == 2          \* total number of run() invocations started

Procs == 1..NumProcs
NoProc == 0

\* ------------------------------------------------------- collaborator data
OrderIds == {"O1", "O2", "O3"}       \* "O3" is never in the Order store
Packs == {"P1"}                      \* packs of the Course Catalog
PackIds == {"P1", "P9"}              \* "P9" does not exist
Courses == {[id |-> "K1", date |-> "D1"]}
NoCourse == [id |-> "none", date |-> "none"]

\* acting users: role and id are fields of User; active and companyId are the
\* facts the user service / company directory answer for that user
Users ==
  { [id |-> "C1", role |-> "company",  active |-> TRUE,  companyId |-> "C1"],
    [id |-> "E2", role |-> "employee", active |-> TRUE,  companyId |-> "C2"],
    [id |-> "E0", role |-> "employee", active |-> TRUE,  companyId |-> "none"],
    [id |-> "C1", role |-> "company",  active |-> FALSE, companyId |-> "C1"],
    [id |-> "A1", role |-> "admin",    active |-> TRUE,  companyId |-> "none"] }

NoUser == [id |-> "none", role |-> "none", active |-> FALSE, companyId |-> "none"]

\* the calls made: the checks before the lock do not read the Order, so one
\* Order id is enough for a call that fails them
Args ==
  { a \in [orderId : OrderIds, packId : PackIds, user : Users] :
      /\ (~a.user.active \/ a.packId \notin Packs) => a.orderId = "O1"
      /\ (a.packId \notin Packs \/ a.orderId = "O3") => a.user.id = "C1"
      /\ a.user.companyId = "none" => a.orderId = "O1"
      /\ a.user.role = "admin" => a.packId \in Packs }
NoArgs == [orderId |-> "none", packId |-> "none", user |-> NoUser]

NoOrder ==
  [id |-> "none", companyId |-> "none", managerId |-> "none",
   courseId |-> "none", status |-> "none", studentIds |-> << >>,
   paymentSessionId |-> "none"]

NoStudent ==
  [id |-> 0, courseId |-> "none", courseDate |-> "none", orderId |-> "none",
   managerId |-> "none", companyId |-> "none", status |-> "none",
   packId |-> "none", testResult |-> "none", paymentMethod |-> "none"]

NoResult == [kind |-> "none", at |-> "none"]

\* an Order of the store when the first call arrives
StoredOrder(id, companyId, managerId, courseId, status, paymentSessionId) ==
  [id |-> id, companyId |-> companyId, managerId |-> managerId,
   courseId |-> courseId, status |-> status, studentIds |-> << >>,
   paymentSessionId |-> paymentSessionId]

\* Order stores the first call can find: O1 of company C1, O2 of company C2
InitialStores ==
  { [o \in {"O1", "O2"} |->
       IF o = "O1"
       THEN StoredOrder("O1", "C1", "M1", v[1], v[2], v[3])
       ELSE StoredOrder("O2", "C2", "M2", "K1", v[4], "none")] :
     v \in { <<"K1", "pending", "none", "pending">>,
             <<"K1", "pending", "PS1", "pending">>,
             <<"K9", "pending", "none", "pending">>,
             <<"K1", "completed", "none", "pending">>,
             <<"K1", "pending", "none", "completed">> } }

VARIABLES
  orderRepo,     \* Order store: id -> Order
  studentRepo,   \* Student store: set of saved Students
  lock,          \* Order id -> invocation holding its lock (NoProc: free)
  nextId,        \* source of fresh Student ids (v4)
  calls,         \* number of invocations started
  pc,            \* position of each invocation in run()
  args,          \* (orderId, dto, user) of each invocation
  order,         \* local variable order
  course,        \* local variable course
  student,       \* local variable student
  result,        \* what the invocation returns or throws, and where
  lockCalls,     \* findAndLockById calls made by the invocation
  unlockCalls,   \* unlock calls made by the invocation
  expireCalls,   \* expireOrderPaymentSession calls made by the invocation
  writes         \* store writes (Student save, Order save) of the invocation

stores == <<orderRepo, studentRepo>>
locals == <<args, order, course, student>>
counts == <<lockCalls, unlockCalls, expireCalls, writes>>
vars == <<orderRepo, studentRepo, lock, nextId, calls, pc, args, order,
          course, student, result, lockCalls, unlockCalls, expireCalls, writes>>

\* ------------------------------------------------- collaborators (out of src)
isActiveCompany(user) ==
  user.active /\ user.role \in {"company", "employee"}

findPackById(packId) == packId \in Packs

findById(courseId) ==
  IF \E c \in Courses : c.id = courseId
  THEN CHOOSE c \in Courses : c.id = courseId
  ELSE NoCourse

Range(s) == {s[k] : k \in 1..Len(s)}

\* ------------------------------------------------------ code of run()
Thrown(kind, at) == [kind |-> kind, at |-> at]

\* CompanyMismatch that lets every company through
CompanyMismatch_Never(user, ord) == FALSE

\* line 57
CompanyMismatch(user, ord) ==
  user.role = "company" /\ ord.companyId # user.id

\* EmployeeMismatch that lets every employee through
EmployeeMismatch_Never(ord, companyId) == FALSE

\* line 69
EmployeeMismatch(ord, companyId) == ord.companyId # companyId

\* NotPending that lets every status through
NotPending_Never(ord) == FALSE

\* line 77
NotPending(ord) == ord.status # "pending"

\* lines 77-84: from the status check to the next await
AfterCompanyChecks(ord) ==
  IF NotPending(ord) THEN "unlockStatus" ELSE "findCourse"

\* AfterLock that checks the status before the company
AfterLock_StatusFirst(user, ord) ==
  IF NotPending(ord) THEN "unlockStatus"
  ELSE IF CompanyMismatch(user, ord) THEN "unlockCompany"
  ELSE IF user.role = "employee" THEN "resolveCompany"
  ELSE "findCourse"

\* lines 57-84: the synchronous code that follows a successful lock
AfterLock(user, ord) ==
  IF CompanyMismatch(user, ord) THEN "unlockCompany"
  ELSE IF user.role = "employee" THEN "resolveCompany"
  ELSE AfterCompanyChecks(ord)

\* AfterCourse that never expires the payment session
AfterCourse_NoExpire(ord) == "saveStudent"

\* lines 91-95
AfterCourse(ord) ==
  IF ord.paymentSessionId # "none" THEN "expire" ELSE "saveStudent"

\* NewStudent that leaves orderId unset
NewStudent_NoOrderId(id, ord, crs, dto) ==
  [id |-> id, courseId |-> ord.courseId, courseDate |-> crs.date,
   orderId |-> "none", managerId |-> ord.managerId,
   companyId |-> ord.companyId, status |-> "pending",
   packId |-> dto.packId, testResult |-> "pending",
   paymentMethod |-> "startValue"]

\* NewStudent that takes companyId from the Order's managerId
NewStudent_ManagerAsCompany(id, ord, crs, dto) ==
  [id |-> id, courseId |-> ord.courseId, courseDate |-> crs.date,
   orderId |-> ord.id, managerId |-> ord.managerId,
   companyId |-> ord.managerId, status |-> "pending",
   packId |-> dto.packId, testResult |-> "pending",
   paymentMethod |-> "startValue"]

\* lines 96-114
NewStudent(id, ord, crs, dto) ==
  [id |-> id, courseId |-> ord.courseId, courseDate |-> crs.date,
   orderId |-> ord.id, managerId |-> ord.managerId,
   companyId |-> ord.companyId, status |-> "pending",
   packId |-> dto.packId, testResult |-> "pending",
   paymentMethod |-> "startValue"]

\* NewStudentList that puts the new id first
NewStudentList_Prepend(ord, sid) == <<sid>> \o ord.studentIds

\* line 117
NewStudentList(ord, sid) == Append(ord.studentIds, sid)

Init ==
  /\ orderRepo \in InitialStores
  /\ studentRepo = {}
  /\ lock = [o \in OrderIds |-> NoProc]
  /\ nextId = 1
  /\ calls = 0
  /\ pc = [i \in Procs |-> "idle"]
  /\ args = [i \in Procs |-> NoArgs]
  /\ order = [i \in Procs |-> NoOrder]
  /\ course = [i \in Procs |-> NoCourse]
  /\ student = [i \in Procs |-> NoStudent]
  /\ result = [i \in Procs |-> NoResult]
  /\ lockCalls = [i \in Procs |-> 0]
  /\ unlockCalls = [i \in Procs |-> 0]
  /\ expireCalls = [i \in Procs |-> 0]
  /\ writes = [i \in Procs |-> 0]

\* lines 37-46: a caller invokes run(); the active-company check is synchronous
Run(i) ==
  /\ pc[i] \in {"idle", "done"}
  /\ calls < MaxCalls
  /\ calls' = calls + 1
  /\ \E a \in Args :
       /\ args' = [args EXCEPT ![i] = a]
       /\ IF ~isActiveCompany(a.user)
          THEN /\ pc' = [pc EXCEPT ![i] = "done"]
               /\ result' = [result EXCEPT ![i] = Thrown("AccessError", "isActiveCompany")]
          ELSE /\ pc' = [pc EXCEPT ![i] = "findPack"]
               /\ result' = [result EXCEPT ![i] = NoResult]
  /\ order' = [order EXCEPT ![i] = NoOrder]
  /\ course' = [course EXCEPT ![i] = NoCourse]
  /\ student' = [student EXCEPT ![i] = NoStudent]
  /\ lockCalls' = [lockCalls EXCEPT ![i] = 0]
  /\ unlockCalls' = [unlockCalls EXCEPT ![i] = 0]
  /\ expireCalls' = [expireCalls EXCEPT ![i] = 0]
  /\ writes' = [writes EXCEPT ![i] = 0]
  /\ UNCHANGED <<stores, lock, nextId>>

\* FindPack without the pack check
FindPack_NoCheck(i) ==
  /\ pc[i] = "findPack"
  /\ pc' = [pc EXCEPT ![i] = "lock"]
  /\ UNCHANGED <<stores, lock, nextId, calls, locals, result, counts>>

\* lines 46-50
FindPack(i) ==
  /\ pc[i] = "findPack"
  /\ IF ~findPackById(args[i].packId)
     THEN /\ pc' = [pc EXCEPT ![i] = "done"]
          /\ result' = [result EXCEPT ![i] = Thrown("NotFoundError", "findPackById")]
     ELSE /\ pc' = [pc EXCEPT ![i] = "lock"]
          /\ UNCHANGED result
  /\ UNCHANGED <<stores, lock, nextId, calls, locals, counts>>

\* Order store lock contract: lockById blocks while another holder has the lock
CanLock(lk, orderId) == lk[orderId] = NoProc

Acquire(lk, orderId, i) == [lk EXCEPT ![orderId] = i]

\* Order store: unlock(order) releases the lock of order.id
unlock(lk, ord) == [lk EXCEPT ![ord.id] = NoProc]

\* lines 50-84: findAndLockById returns, then the company and status checks
FindAndLock(i) ==
  /\ pc[i] = "lock"
  /\ IF args[i].orderId \notin DOMAIN orderRepo
     THEN /\ pc' = [pc EXCEPT ![i] = "done"]
          /\ result' = [result EXCEPT ![i] = Thrown("NotAllowedError", "findAndLockById")]
          /\ UNCHANGED <<lock, order>>
     ELSE /\ CanLock(lock, args[i].orderId)
          /\ lock' = Acquire(lock, args[i].orderId, i)
          /\ order' = [order EXCEPT ![i] = orderRepo[args[i].orderId]]
          /\ pc' = [pc EXCEPT ![i] = AfterLock(args[i].user, orderRepo[args[i].orderId])]
          /\ UNCHANGED result
  /\ lockCalls' = [lockCalls EXCEPT ![i] = @ + 1]
  /\ UNCHANGED <<stores, nextId, calls, args, course, student,
                 unlockCalls, expireCalls, writes>>

\* lines 65-84: companyFindByEmployeeUseCase.run returns a company or throws
ResolveCompany(i) ==
  /\ pc[i] = "resolveCompany"
  /\ IF args[i].user.companyId = "none"
     THEN /\ pc' = [pc EXCEPT ![i] = "done"]
          /\ result' = [result EXCEPT ![i] = Thrown("CollaboratorError", "companyFindByEmployee")]
     ELSE /\ pc' = [pc EXCEPT ![i] =
                      IF EmployeeMismatch(order[i], args[i].user.companyId)
                      THEN "unlockEmployee"
                      ELSE AfterCompanyChecks(order[i])]
          /\ UNCHANGED result
  /\ UNCHANGED <<stores, lock, nextId, calls, locals, counts>>

\* UnlockAndThrow without the throw: the lock is released and run() goes on
UnlockAndThrow_NoThrow(i) ==
  /\ pc[i] \in {"unlockCompany", "unlockEmployee", "unlockStatus"}
  /\ lock' = unlock(lock, order[i])
  /\ unlockCalls' = [unlockCalls EXCEPT ![i] = @ + 1]
  /\ pc' = [pc EXCEPT ![i] = "findCourse"]
  /\ UNCHANGED <<stores, nextId, calls, locals, result, lockCalls, expireCalls, writes>>

\* lines 58-61, 70-73, 78-81: unlock, then throw
UnlockAndThrow(i) ==
  /\ pc[i] \in {"unlockCompany", "unlockEmployee", "unlockStatus"}
  /\ lock' = unlock(lock, order[i])
  /\ unlockCalls' = [unlockCalls EXCEPT ![i] = @ + 1]
  /\ pc' = [pc EXCEPT ![i] = "done"]
  /\ result' = [result EXCEPT ![i] =
                  IF pc[i] = "unlockStatus"
                  THEN Thrown("NotAllowedError", "status")
                  ELSE Thrown("AccessError", pc[i])]
  /\ UNCHANGED <<stores, nextId, calls, locals, lockCalls, expireCalls, writes>>

\* lines 84-95
FindCourse(i) ==
  /\ pc[i] = "findCourse"
  /\ IF findById(order[i].courseId) = NoCourse
     THEN /\ pc' = [pc EXCEPT ![i] = "done"]
          /\ result' = [result EXCEPT ![i] = Thrown("NotAllowedError", "findCourse")]
          /\ UNCHANGED course
     ELSE /\ course' = [course EXCEPT ![i] = findById(order[i].courseId)]
          /\ pc' = [pc EXCEPT ![i] = AfterCourse(order[i])]
          /\ UNCHANGED result
  /\ UNCHANGED <<stores, lock, nextId, calls, args, order, student, counts>>

\* lines 91-95: expireOrderPaymentSession returns or throws
Expire(i) ==
  /\ pc[i] = "expire"
  /\ expireCalls' = [expireCalls EXCEPT ![i] = @ + 1]
  /\ \E ok \in BOOLEAN :
       IF ok
       THEN /\ pc' = [pc EXCEPT ![i] = "saveStudent"]
            /\ UNCHANGED result
       ELSE /\ pc' = [pc EXCEPT ![i] = "done"]
            /\ result' = [result EXCEPT ![i] = Thrown("CollaboratorError", "expireOrderPaymentSession")]
  /\ UNCHANGED <<stores, lock, nextId, calls, locals, lockCalls, unlockCalls, writes>>

\* SaveStudent that goes on to the Order update when the save failed
SaveStudent_IgnoreFailure(i) ==
  /\ pc[i] = "saveStudent"
  /\ student' = [student EXCEPT ![i] = NewStudent(nextId, order[i], course[i], args[i])]
  /\ nextId' = nextId + 1
  /\ \E ok \in BOOLEAN :
       IF ok
       THEN /\ studentRepo' = studentRepo \cup {NewStudent(nextId, order[i], course[i], args[i])}
            /\ writes' = [writes EXCEPT ![i] = @ + 1]
       ELSE UNCHANGED <<studentRepo, writes>>
  /\ pc' = [pc EXCEPT ![i] = "updateOrder"]
  /\ UNCHANGED <<orderRepo, lock, calls, args, order, course, result,
                 lockCalls, unlockCalls, expireCalls>>

\* lines 96-115: construct the Student with a fresh id, studentRepo.save
SaveStudent(i) ==
  /\ pc[i] = "saveStudent"
  /\ student' = [student EXCEPT ![i] = NewStudent(nextId, order[i], course[i], args[i])]
  /\ nextId' = nextId + 1
  /\ \E ok \in BOOLEAN :
       IF ok
       THEN /\ studentRepo' = studentRepo \cup {NewStudent(nextId, order[i], course[i], args[i])}
            /\ writes' = [writes EXCEPT ![i] = @ + 1]
            /\ pc' = [pc EXCEPT ![i] = "updateOrder"]
            /\ UNCHANGED result
       ELSE /\ pc' = [pc EXCEPT ![i] = "finally"]
            /\ result' = [result EXCEPT ![i] = Thrown("CollaboratorError", "studentRepo.save")]
            /\ UNCHANGED <<studentRepo, writes>>
  /\ UNCHANGED <<orderRepo, lock, calls, args, order, course,
                 lockCalls, unlockCalls, expireCalls>>

\* lines 117-118: updateOrderStudents sets the list on the in-memory Order
UpdateOrderStudents(i) ==
  /\ pc[i] = "updateOrder"
  /\ \E ok \in BOOLEAN :
       IF ok
       THEN /\ order' = [order EXCEPT ![i].studentIds = NewStudentList(order[i], student[i].id)]
            /\ pc' = [pc EXCEPT ![i] = "saveOrder"]
            /\ UNCHANGED result
       ELSE /\ pc' = [pc EXCEPT ![i] = "finally"]
            /\ result' = [result EXCEPT ![i] = Thrown("CollaboratorError", "updateOrderStudents")]
            /\ UNCHANGED order
  /\ UNCHANGED <<stores, lock, nextId, calls, args, course, student, counts>>

\* SaveOrder that writes the new student list to every Order of the store
SaveOrder_EveryOrder(i) ==
  /\ pc[i] = "saveOrder"
  /\ \E ok \in BOOLEAN :
       IF ok
       THEN /\ orderRepo' = [o \in DOMAIN orderRepo |->
                               [orderRepo[o] EXCEPT !.studentIds = order[i].studentIds]]
            /\ writes' = [writes EXCEPT ![i] = @ + 1]
            /\ pc' = [pc EXCEPT ![i] = "refetch"]
            /\ UNCHANGED result
       ELSE /\ pc' = [pc EXCEPT ![i] = "finally"]
            /\ result' = [result EXCEPT ![i] = Thrown("CollaboratorError", "orderRepo.save")]
            /\ UNCHANGED <<orderRepo, writes>>
  /\ UNCHANGED <<studentRepo, lock, nextId, calls, locals,
                 lockCalls, unlockCalls, expireCalls>>

\* line 119: orderRepo.save(order)
SaveOrder(i) ==
  /\ pc[i] = "saveOrder"
  /\ \E ok \in BOOLEAN :
       IF ok
       THEN /\ orderRepo' = [orderRepo EXCEPT ![order[i].id] = order[i]]
            /\ writes' = [writes EXCEPT ![i] = @ + 1]
            /\ pc' = [pc EXCEPT ![i] = "refetch"]
            /\ UNCHANGED result
       ELSE /\ pc' = [pc EXCEPT ![i] = "finally"]
            /\ result' = [result EXCEPT ![i] = Thrown("CollaboratorError", "orderRepo.save")]
            /\ UNCHANGED <<orderRepo, writes>>
  /\ UNCHANGED <<studentRepo, lock, nextId, calls, locals,
                 lockCalls, unlockCalls, expireCalls>>

\* Refetch that unlocks before throwing inside the try block
Refetch_UnlockBeforeThrow(i) ==
  /\ pc[i] = "refetch"
  /\ \E found \in (IF student[i] \in studentRepo THEN BOOLEAN ELSE {FALSE}) :
       IF found
       THEN /\ result' = [result EXCEPT ![i] = Thrown("ok", "return")]
            /\ UNCHANGED <<lock, unlockCalls>>
       ELSE /\ result' = [result EXCEPT ![i] = Thrown("Error", "studentService.findById")]
            /\ lock' = unlock(lock, order[i])
            /\ unlockCalls' = [unlockCalls EXCEPT ![i] = @ + 1]
  /\ pc' = [pc EXCEPT ![i] = "finally"]
  /\ UNCHANGED <<stores, nextId, calls, locals, lockCalls, expireCalls, writes>>

\* lines 121-126: studentService.findById answers with the Student or nothing
Refetch(i) ==
  /\ pc[i] = "refetch"
  /\ \E found \in (IF student[i] \in studentRepo THEN BOOLEAN ELSE {FALSE}) :
       result' = [result EXCEPT ![i] =
                    IF found THEN Thrown("ok", "return")
                    ELSE Thrown("Error", "studentService.findById")]
  /\ pc' = [pc EXCEPT ![i] = "finally"]
  /\ UNCHANGED <<stores, lock, nextId, calls, locals, counts>>

\* lines 127-129: the finally block
FinallyUnlock(i) ==
  /\ pc[i] = "finally"
  /\ lock' = unlock(lock, order[i])
  /\ unlockCalls' = [unlockCalls EXCEPT ![i] = @ + 1]
  /\ pc' = [pc EXCEPT ![i] = "done"]
  /\ UNCHANGED <<stores, nextId, calls, locals, result, lockCalls, expireCalls, writes>>

Step(i) ==
  \/ Run(i)
  \/ FindPack(i)
  \/ FindAndLock(i)
  \/ ResolveCompany(i)
  \/ UnlockAndThrow(i)
  \/ FindCourse(i)
  \/ Expire(i)
  \/ SaveStudent(i)
  \/ UpdateOrderStudents(i)
  \/ SaveOrder(i)
  \/ Refetch(i)
  \/ FinallyUnlock(i)

Next == \E i \in Procs : Step(i)

Spec == Init /\ [][Next]_vars

\* every invocation that can take a step eventually takes one
FairSpec == Spec /\ \A i \in Procs : WF_vars(Step(i) /\ pc[i] # "idle" /\ pc[i] # "done")

\* ------------------------------------------------------------------ claims
\* the invocation is between its successful findAndLockById and its unlock
InCriticalSection(i) ==
  pc[i] \in {"unlockCompany", "unlockEmployee", "unlockStatus", "resolveCompany",
             "findCourse", "expire", "saveStudent", "updateOrder", "saveOrder",
             "refetch", "finally"}

\* findAndLockById returned an Order to the invocation
LockAcquired(i) == order[i] # NoOrder

\* C1: every call whose findAndLockById returned an Order has invoked unlock
\* exactly once when it ends, on every exit path.
C1_UnlockExactlyOnce ==
  \A i \in Procs : (pc[i] = "done" /\ LockAcquired(i)) => unlockCalls[i] = 1

\* C2: at most one invocation is between its successful findAndLockById and
\* its unlock for a given Order id.
C2_MutualExclusion ==
  \A i, j \in Procs :
    (i # j /\ InCriticalSection(i) /\ InCriticalSection(j))
      => order[i].id # order[j].id

\* one invocation is in the critical section of O1 while another waits for O1
C2_Witness ==
  \E i, j \in Procs :
    /\ pc[i] = "saveOrder" /\ order[i].id = "O1"
    /\ pc[j] = "lock" /\ args[j].orderId = "O1"

\* C3: two calls on the same Order that both succeed appended to different
\* snapshots of studentIds, and the stored studentIds holds both new ids.
C3_NoLostUpdate ==
  \A i, j \in Procs :
    (/\ i # j
     /\ pc[i] = "done" /\ result[i].kind = "ok"
     /\ pc[j] = "done" /\ result[j].kind = "ok"
     /\ order[i].id = order[j].id)
      => /\ student[i].id \in Range(orderRepo[order[i].id].studentIds)
         /\ student[j].id \in Range(orderRepo[order[i].id].studentIds)
         /\ Len(order[i].studentIds) # Len(order[j].studentIds)

\* two calls on O1 have both succeeded
C3_Witness ==
  \E i, j \in Procs :
    /\ i # j
    /\ pc[i] = "done" /\ result[i].kind = "ok" /\ order[i].id = "O1"
    /\ pc[j] = "done" /\ result[j].kind = "ok" /\ order[j].id = "O1"
    /\ Len(orderRepo["O1"].studentIds) = 2

\* C4: under fair scheduling every acquired lock is eventually released.
C4_LockEventuallyReleased ==
  \A o \in {"O1", "O2"} : (lock[o] # NoProc) ~> (lock[o] = NoProc)

\* C5: a call whose Course cannot be resolved fails with a not-allowed error,
\* has released the lock and has written nothing.
C5_CourseMissingReleases ==
  \A i \in Procs :
    (pc[i] = "done" /\ LockAcquired(i) /\ findById(order[i].courseId) = NoCourse
       /\ result[i].at = "findCourse")
      => /\ result[i].kind = "NotAllowedError"
         /\ lock[order[i].id] # i
         /\ writes[i] = 0

\* C6: a call that ends with a collaborator's failure raised while the lock was
\* held has released the lock.
C6_CollaboratorFailureReleases ==
  \A i \in Procs :
    (pc[i] = "done" /\ LockAcquired(i) /\ result[i].kind = "CollaboratorError")
      => lock[order[i].id] # i

\* C7: a call by an inactive actor or for a missing pack never calls
\* findAndLockById or unlock; a call that finds no Order fails with a
\* not-allowed error and never calls unlock.
C7_NoUnlockBeforeLock ==
  \A i \in Procs :
    /\ (args[i] # NoArgs /\ (~args[i].user.active \/ args[i].packId \notin Packs))
         => (lockCalls[i] = 0 /\ unlockCalls[i] = 0)
    /\ (args[i] # NoArgs /\ args[i].orderId \notin DOMAIN orderRepo)
         => /\ unlockCalls[i] = 0
            /\ lockCalls[i] = 1 => (pc[i] = "done" /\ result[i].kind = "NotAllowedError")

\* a call for a missing pack and a call for a missing Order have both ended
C7_Witness ==
  \E i, j \in Procs :
    /\ pc[i] = "done" /\ result[i] = Thrown("NotFoundError", "findPackById")
    /\ pc[j] = "done" /\ result[j] = Thrown("NotAllowedError", "findAndLockById")
    /\ lockCalls[j] = 1

\* C8: the stored studentIds of an Order changes only by one new id appended at
\* its end, a successful Order save makes exactly that change, and no id occurs
\* twice.
C8_AppendOnly ==
  [][ /\ \A o \in DOMAIN orderRepo :
           orderRepo'[o].studentIds # orderRepo[o].studentIds
             => \E sid \in 1..MaxCalls :
                  /\ sid \notin Range(orderRepo[o].studentIds)
                  /\ orderRepo'[o].studentIds = Append(orderRepo[o].studentIds, sid)
      /\ \A i \in Procs :
           (pc[i] = "saveOrder" /\ pc'[i] = "refetch")
             => orderRepo'[order[i].id].studentIds
                  = Append(orderRepo[order[i].id].studentIds, student[i].id) ]_vars

\* two successful calls have appended to O1
C8_Witness ==
  /\ Len(orderRepo["O1"].studentIds) = 2
  /\ \E i \in Procs : pc[i] = "done" /\ result[i].kind = "ok" /\ order[i].id = "O1"

\* the call fails one of the validations that come before the Student is built
FailsValidation(i) ==
  \/ ~args[i].user.active
  \/ args[i].packId \notin Packs
  \/ args[i].orderId \notin DOMAIN orderRepo
  \/ /\ LockAcquired(i)
     /\ \/ args[i].user.role = "company" /\ order[i].companyId # args[i].user.id
        \/ /\ args[i].user.role = "employee"
           /\ args[i].user.companyId # "none"
           /\ order[i].companyId # args[i].user.companyId
        \/ order[i].status # "pending"
        \/ \A c \in Courses : c.id # order[i].courseId

\* C9: a call that fails a validation before the Student is built has written
\* neither a Student nor the Order, and the stored studentIds is the one it
\* read for as long as it holds the lock.
C9_ValidationFailureWritesNothing ==
  \A i \in Procs :
    (args[i] # NoArgs /\ FailsValidation(i))
      => /\ writes[i] = 0
         /\ student[i] = NoStudent
         /\ InCriticalSection(i) => orderRepo[order[i].id].studentIds = order[i].studentIds

\* a company's call on another company's Order has ended
C9_Witness ==
  \E i \in Procs :
    /\ pc[i] = "done" /\ result[i] = Thrown("AccessError", "unlockCompany")
    /\ args[i].user.role = "company" /\ order[i].companyId # args[i].user.id

\* the actor passes the company ownership checks of the Order
OwnsOrder(i) ==
  /\ args[i].user.role = "company" => order[i].companyId = args[i].user.id
  /\ args[i].user.role = "employee" => order[i].companyId = args[i].user.companyId

\* C10 as stated: a call on an Order that is not pending at lock time writes
\* nothing and fails with a not-allowed error.
C10_NotPendingIsNotAllowed ==
  \A i \in Procs :
    (pc[i] = "done" /\ LockAcquired(i) /\ order[i].status # "pending")
      => (writes[i] = 0 /\ result[i].kind = "NotAllowedError")

\* C10 amended: a call on an Order that is not pending at lock time writes
\* nothing; it fails with a not-allowed error when the actor passes the company
\* ownership checks, which run first, and with their error otherwise.
C10_NotPendingWritesNothing ==
  \A i \in Procs :
    (LockAcquired(i) /\ order[i].status # "pending")
      => /\ writes[i] = 0
         /\ student[i] = NoStudent
         /\ pc[i] = "done"
              => IF OwnsOrder(i)
                 THEN result[i].kind = "NotAllowedError"
                 ELSE result[i].kind \in {"AccessError", "CollaboratorError"}

\* the owner's call on a completed Order has ended with a not-allowed error
C10_Witness ==
  \E i \in Procs :
    /\ pc[i] = "done" /\ order[i].status = "completed" /\ OwnsOrder(i)
    /\ result[i] = Thrown("NotAllowedError", "status")

\* the call passes every validation of run() and its collaborators answer up to
\* the payment session step
PassesValidation(i) ==
  /\ LockAcquired(i)
  /\ OwnsOrder(i)
  /\ args[i].user.role \in {"company", "employee"}
  /\ order[i].status = "pending"
  /\ \E c \in Courses : c.id = order[i].courseId

\* the invocation is past the payment session step of lines 91-93
PastExpire(i) ==
  \/ pc[i] \in {"saveStudent", "updateOrder", "saveOrder", "refetch", "finally"}
  \/ pc[i] = "done" /\ result[i].at # "expireOrderPaymentSession" /\ PassesValidation(i)

\* C11: with paymentSessionId set and all validations passed, Payment Session
\* Expiry has been invoked exactly once when the Student is built or saved; it
\* is never invoked when paymentSessionId is not set or a validation fails.
C11_ExpireOnceBeforeStudent ==
  \A i \in Procs :
    /\ expireCalls[i] <= 1
    /\ (args[i] # NoArgs /\ (FailsValidation(i) \/ ~LockAcquired(i)
          \/ order[i].paymentSessionId = "none"))
         => expireCalls[i] = 0
    /\ (PassesValidation(i) /\ order[i].paymentSessionId # "none" /\ PastExpire(i))
         => expireCalls[i] = 1
    /\ (LockAcquired(i) /\ order[i].paymentSessionId # "none"
          /\ (student[i] # NoStudent \/ writes[i] > 0))
         => expireCalls[i] = 1
    /\ pc[i] = "expire" => (student[i] = NoStudent /\ writes[i] = 0)

\* a call on an Order with a payment session has succeeded after one expiry
C11_Witness ==
  \E i \in Procs :
    /\ pc[i] = "done" /\ result[i].kind = "ok"
    /\ order[i].paymentSessionId = "PS1"
    /\ expireCalls[i] = 1
    /\ student[i] \in studentRepo

\* C12: the Student save has completed whenever the Order update is attempted:
\* an invocation at or past the Order update has its Student in the Student
\* store, and a stored studentIds never holds the id of an invocation's Student
\* that is not in the Student store.
C12_StudentSavedBeforeOrderUpdate ==
  \A i \in Procs :
    /\ pc[i] \in {"updateOrder", "saveOrder", "refetch"} => student[i] \in studentRepo
    /\ (LockAcquired(i) /\ student[i] # NoStudent
          /\ student[i].id \in Range(orderRepo[order[i].id].studentIds))
         => student[i] \in studentRepo

\* the Order save has just stored the id of a saved Student
C12_Witness ==
  \E i \in Procs :
    /\ pc[i] = "refetch"
    /\ student[i] \in studentRepo
    /\ student[i].id \in Range(orderRepo[order[i].id].studentIds)

\* the Order but for its studentIds
OrderFrame(ord) ==
  <<ord.id, ord.companyId, ord.managerId, ord.courseId, ord.status>>

\* C13: an invocation waiting for the lock of an Order can take it whenever
\* that Order's lock is free, whatever the locks of the other Orders; a step of
\* run() never deletes an Order, changes only the studentIds of an Order, and
\* only of the Order the stepping invocation has locked.
C13_OrdersIndependent ==
  /\ [](\A i \in Procs :
          (pc[i] = "lock" /\ args[i].orderId \in DOMAIN orderRepo
             /\ lock[args[i].orderId] = NoProc)
            => ENABLED FindAndLock(i))
  /\ [][ /\ DOMAIN orderRepo' = DOMAIN orderRepo
         /\ \A o \in DOMAIN orderRepo : OrderFrame(orderRepo'[o]) = OrderFrame(orderRepo[o])
         /\ \A o \in DOMAIN orderRepo :
              orderRepo'[o] # orderRepo[o]
                => \E i \in Procs :
                     /\ pc[i] = "saveOrder" /\ pc'[i] = "refetch"
                     /\ order[i].id = o /\ lock[o] = i
                     /\ \A q \in DOMAIN orderRepo \ {o} : orderRepo'[q] = orderRepo[q] ]_vars

\* an invocation has appended to O1 and holds its lock while another invocation
\* is in its critical section on O2, whose stored Order is as it was
C13_Witness ==
  \E i, j \in Procs :
    /\ pc[i] = "refetch" /\ order[i].id = "O1" /\ lock["O1"] = i
    /\ Len(orderRepo["O1"].studentIds) = 1
    /\ pc[j] = "saveStudent" /\ order[j].id = "O2" /\ lock["O2"] = j
    /\ orderRepo["O2"].studentIds = << >>

\* C14: every saved Student carries the orderId, courseId, managerId and
\* companyId of the Order read at lock time, the date of the resolved Course,
\* the requested pack, and status, testResult and paymentMethod at their
\* initial values.
C14_StudentFields ==
  /\ \A i \in Procs :
       student[i] \in studentRepo
         => /\ student[i].orderId = args[i].orderId
            /\ student[i].orderId = order[i].id
            /\ student[i].courseId = order[i].courseId
            /\ student[i].managerId = order[i].managerId
            /\ student[i].companyId = order[i].companyId
            /\ student[i].courseDate = course[i].date
            /\ course[i] \in Courses /\ course[i].id = order[i].courseId
            /\ student[i].packId = args[i].packId
  /\ \A s \in studentRepo :
       /\ s.status = "pending"
       /\ s.testResult = "pending"
       /\ s.paymentMethod = "startValue"
       /\ s.orderId \in DOMAIN orderRepo
       /\ s.courseId = orderRepo[s.orderId].courseId
       /\ s.managerId = orderRepo[s.orderId].managerId
       /\ s.companyId = orderRepo[s.orderId].companyId
       /\ \E c \in Courses : c.id = s.courseId /\ c.date = s.courseDate
       /\ s.packId \in Packs

\* an employee's call has saved a Student for O2
C14_Witness ==
  \E i \in Procs :
    /\ student[i] \in studentRepo
    /\ student[i].orderId = "O2" /\ student[i].companyId = "C2"
    /\ student[i].managerId = "M2" /\ student[i].courseDate = "D1"

\* the error kind of the first check the call fails, in the order active-company
\* capability, pack, Order, company ownership, pending status, Course
FirstFailingCheck(a) ==
  IF ~(a.user.active /\ a.user.role \in {"company", "employee"}) THEN "AccessError"
  ELSE IF a.packId \notin Packs THEN "NotFoundError"
  ELSE IF a.orderId \notin DOMAIN orderRepo THEN "NotAllowedError"
  ELSE IF \/ a.user.role = "company" /\ orderRepo[a.orderId].companyId # a.user.id
          \/ a.user.role = "employee" /\ orderRepo[a.orderId].companyId # a.user.companyId
       THEN "AccessError"
  ELSE IF orderRepo[a.orderId].status # "pending" THEN "NotAllowedError"
  ELSE IF \A c \in Courses : c.id # orderRepo[a.orderId].courseId THEN "NotAllowedError"
  ELSE "none"

\* the employee's company cannot be resolved, and the call gets as far as asking
ResolutionFails(a) ==
  /\ a.user.active /\ a.user.role = "employee" /\ a.user.companyId = "none"
  /\ a.packId \in Packs
  /\ a.orderId \in DOMAIN orderRepo

\* C15: a call whose collaborators answer ends with the error kind of the first
\* check it fails, the checks taken in their fixed order; a call that fails no
\* check ends with no validation error.
C15_FirstFailingCheckDecides ==
  \A i \in Procs :
    (pc[i] = "done" /\ ~ResolutionFails(args[i]))
      => IF FirstFailingCheck(args[i]) # "none"
         THEN result[i].kind = FirstFailingCheck(args[i])
         ELSE result[i].kind \in {"ok", "CollaboratorError", "Error"}

\* a call on a foreign Order that is not pending has ended with an
\* authorization error, and so has an inactive actor's call for a missing pack
C15_Witness ==
  \E i, j \in Procs :
    /\ pc[i] = "done" /\ LockAcquired(i) /\ order[i].status = "completed"
    /\ ~OwnsOrder(i) /\ result[i].kind = "AccessError"
    /\ pc[j] = "done" /\ ~args[j].user.active /\ args[j].packId \notin Packs
    /\ result[j].kind = "AccessError"

\* C16: no invocation calls unlock more than once; every unlock call is made by
\* the invocation that holds the lock of the Order it passes, which is the
\* Order it asked to lock, and releases that lock only; a held lock changes only
\* by its holder's unlock.
C16_UnlockByHolderOnce ==
  /\ [](\A i \in Procs : unlockCalls[i] <= 1)
  /\ [][ /\ \A i \in Procs :
              unlockCalls'[i] = unlockCalls[i] + 1
                => /\ order[i].id = args[i].orderId
                   /\ lock[order[i].id] = i
                   /\ lock' = [lock EXCEPT ![order[i].id] = NoProc]
         /\ \A o \in OrderIds :
              (lock[o] # NoProc /\ lock'[o] # lock[o])
                => /\ lock'[o] = NoProc
                   /\ unlockCalls'[lock[o]] = unlockCalls[lock[o]] + 1 ]_vars

\* an invocation has saved O1 and unlocked it once in its finally block, and
\* the next invocation holds the lock of O1
C16_Witness ==
  \E i, j \in Procs :
    /\ pc[i] = "done" /\ result[i].kind = "ok" /\ order[i].id = "O1"
    /\ unlockCalls[i] = 1
    /\ lock["O1"] = j /\ InCriticalSection(j) /\ unlockCalls[j] = 0

\* C17: every id in a stored Order's studentIds is the id of a Student of the
\* Student store whose orderId is that Order.
C17_StudentIdsReferToStudents ==
  \A o \in DOMAIN orderRepo :
    \A k \in 1..Len(orderRepo[o].studentIds) :
      \E s \in studentRepo : s.id = orderRepo[o].studentIds[k] /\ s.orderId = o

\* one call has appended its Student to an Order, and another call has ended
\* after its Student was saved and its Order update failed: that Student is
\* stored and no Order refers to it
C17_Witness ==
  /\ \E o \in DOMAIN orderRepo : Len(orderRepo[o].studentIds) = 1
  /\ \E i \in Procs :
       /\ pc[i] = "done"
       /\ result[i].at \in {"updateOrderStudents", "orderRepo.save"}
       /\ student[i] \in studentRepo
       /\ \A o \in DOMAIN orderRepo : student[i].id \notin Range(orderRepo[o].studentIds)

\* the company the actor acts for: a company's own id, an employee's resolved
\* company, none for any other role
ActingCompany(user) ==
  IF user.role = "company" THEN user.id
  ELSE IF user.role = "employee" THEN user.companyId
  ELSE "none"

\* C18: an invocation that has built or saved a Student, or written the Order,
\* acts for the company of the Order it locked.
C18_OnlyOwnCompany ==
  \A i \in Procs :
    (student[i] # NoStudent \/ writes[i] > 0
       \/ pc[i] \in {"findCourse", "expire", "saveStudent"})
      => /\ ActingCompany(args[i].user) # "none"
         /\ ActingCompany(args[i].user) = order[i].companyId

\* an employee of C2 has enrolled a Student into C2's Order, and an admin's call
\* has been refused
C18_Witness ==
  \E i, j \in Procs :
    /\ pc[i] = "done" /\ result[i].kind = "ok"
    /\ args[i].user.role = "employee" /\ order[i].companyId = "C2"
    /\ student[i] \in studentRepo
    /\ pc[j] = "done" /\ args[j].user.role = "admin"
    /\ result[j] = Thrown("AccessError", "isActiveCompany")
====
